---------------------------- MODULE Spec2Model ----------------------------
(***************************************************************************)
(* Model of the MySQL driver adapter (package mysql): Connector, mysqlConn, *)
(* mysqlStmt, mysqlTx and mysqlRows, each a thin wrapper that delegates to  *)
(* a database/sql handle (sql.DB, sql.Stmt, sql.Tx, sql.Rows).              *)
(*                                                                         *)
(* Every adapter method is one action.  The action contains the vendor      *)
(* call(s) the method makes, so the state of the wrapped database/sql       *)
(* handle (closed, done, iterator position) is part of the model's state.   *)
(* The outcome of a vendor call that reaches the network is an input of     *)
(* the action (nil or a vendor error); the outcomes database/sql decides    *)
(* from the handle's own state (closed database, closed statement,          *)
(* finished transaction, closed rows, Scan before Next) are computed.       *)
(***************************************************************************)
EXTENDS Integers, Sequences, FiniteSets

\* ------------------------------------------------------------- bounds
MaxHandles  == 3   \* connections, statements, transactions and cursors handed out
MaxK        == 1   \* rows in one query result
MaxArgs     == 2   \* arguments of one Exec/Query call
MaxWrites   == 1   \* writes applied to the database
MaxNexts    == MaxK + 1   \* Next calls counted per cursor: the rows, then the end

\* ------------------------------------------------------------- values
Nil == "nil"                      \* the nil error / an absent value

\* Errors database/sql reports from a handle's own state.
ErrDBClosed    == "sql: database is closed"
ErrStmtClosed  == "sql: statement is closed"
ErrTxDone      == "sql: transaction has already been committed or rolled back"
ErrRowsClosed  == "sql: Rows are closed"
ErrScanNoNext  == "sql: Scan called without calling Next"
EOF            == "EOF"
\* An error the vendor reports from the server or the network.
ErrVendor      == "driver: bad connection"
\* An error sql.Open reports for a connection string the driver rejects.
ErrDSN         == "invalid DSN"
\* What a failed ping reports: unreachable server, rejected credentials,
\* context cancelled during the attempt.
ErrRefused     == "dial tcp: connection refused"
ErrAuth        == "Error 1045: Access denied"
ErrCanceled    == "context canceled"

PingOutcomes   == {Nil, ErrRefused, ErrAuth, ErrCanceled}
VendorOutcomes == {Nil, ErrVendor}

\* driver.Value: a value together with its dynamic type.
Values == { [t |-> "int64", v |-> 5], [t |-> "string", v |-> 5] }
NilValue == [t |-> "nil", v |-> 0]

RECURSIVE SeqsUpTo(_, _)
SeqsUpTo(S, n) ==
    IF n = 0 THEN { <<>> }
    ELSE LET shorter == SeqsUpTo(S, n - 1)
         IN  shorter \cup { Append(s, x) : s \in { z \in shorter : Len(z) = n - 1 }, x \in S }

ArgLists == SeqsUpTo(Values, MaxArgs)

InsertQ == "INSERT INTO t VALUES (?)"
SelectQ == "SELECT id, name FROM t WHERE id = ?"
Queries == {InsertQ, SelectQ}

\* The projection of a query: the column names of its result, in order.
Projection(q) == IF q = SelectQ THEN <<"id", "name">> ELSE <<>>
\* Whether executing the query changes the database.
Writes(q) == q = InsertQ
\* The i-th row of a SELECT result, one value per projected column.
Row(i) == << [t |-> "int64", v |-> i], [t |-> "string", v |-> i] >>

\* An error as the adapter returns it: <<>> is nil, <<e>> is the vendor's
\* error e itself, <<p, e>> is fmt.Errorf(p + ": %w", e), which wraps e.
NoErr == <<>>
Bare(e) == IF e = Nil THEN <<>> ELSE <<e>>
Wrap(p, e) == <<p, e>>
OpenPrefix == "failed to open mysql"
PingPrefix == "failed to ping mysql"

VARIABLES
    dsn,        \* Connector.dsn: "wellformed" or "malformed"
    sessions,   \* vendor counter: sql.DB handles opened and not closed
    conns,      \* mysqlConn values returned: <<[closed]>>, closed = db closed
    stmts,      \* mysqlStmt values returned: <<[conn, query, closed]>>
    txs,        \* mysqlTx values returned: <<[conn, done, outcome, pending, during]>>
    rows,       \* mysqlRows values returned: <<[stmt, k, pos, closed, nexts, hist]>>
    iters,      \* vendor counter: row iterators opened and not closed
    data,       \* number of writes the database holds
    acked,      \* number of writes whose Exec/Query returned success
    last        \* the last adapter call: what it was given, did and returned

vars == <<dsn, sessions, conns, stmts, txs, rows, iters, data, acked, last>>

\* The number of handles the adapter has returned so far.
Handles == Len(conns) + Len(stmts) + Len(txs) + Len(rows)

\* The record of one adapter call.
Call(op, obj) ==
    [ op     |-> op,      \* the adapter method
      obj    |-> obj,     \* the handle it was called on (0: the Connector)
      vcalls |-> <<>>,    \* the vendor calls it made, in order
      verr   |-> Nil,     \* the error of its failing vendor call, or Nil
      err    |-> NoErr,   \* the error it returned
      ret    |-> 0,       \* the handle it returned (0: nil)
      res    |-> FALSE,   \* whether it returned a non-nil driver.Result
      args   |-> <<>>,    \* the arguments it was given
      sent   |-> <<>>,    \* the parameters the vendor call received
      cols   |-> <<>>,    \* the column names it returned
      dest   |-> <<>> ]   \* the destination slots after the call

Init ==
    /\ dsn \in {"wellformed", "malformed"}
    /\ sessions = 0
    /\ conns = <<>>
    /\ stmts = <<>>
    /\ txs = <<>>
    /\ rows = <<>>
    /\ iters = 0
    /\ data = 0
    /\ acked = 0
    /\ last = Call("none", 0)

\* ---------------------------------------------------------- Connector

\* sql.Open rejected the connection string: the open error is returned,
\* wrapped; nothing was opened and no ping is made.
OpenFailed ==
    /\ last' = [Call("Connect", 0) EXCEPT
                   !.vcalls = <<"Open">>, !.verr = ErrDSN,
                   !.err = Wrap(OpenPrefix, ErrDSN)]
    /\ UNCHANGED <<sessions, conns>>

\* A mutant of PingFailed: the handle is not closed on the failure path.
PingFailedNoClose(ping) ==
    /\ last' = [Call("Connect", 0) EXCEPT
                   !.vcalls = <<"Open", "Ping">>, !.verr = ping,
                   !.err = Wrap(PingPrefix, ping)]
    /\ sessions' = sessions + 1
    /\ UNCHANGED conns

\* A mutant of PingFailed: the ping error is not checked, and the
\* connection is returned although its liveness check failed.
PingFailedIgnored(ping) ==
    /\ Handles < MaxHandles
    /\ conns' = Append(conns, [closed |-> FALSE])
    /\ sessions' = sessions + 1
    /\ last' = [Call("Connect", 0) EXCEPT
                   !.vcalls = <<"Open", "Ping">>, !.verr = ping,
                   !.ret = Len(conns) + 1]

\* db.PingContext(ctx) failed (server unreachable, credentials rejected,
\* or ctx cancelled): the handle just opened is closed, and the ping error
\* is returned, wrapped; no connection is returned.
PingFailed(ping) ==
    /\ last' = [Call("Connect", 0) EXCEPT
                   !.vcalls = <<"Open", "Ping", "Close">>, !.verr = ping,
                   !.err = Wrap(PingPrefix, ping)]
    /\ sessions' = (sessions + 1) - 1
    /\ UNCHANGED conns

\* Open and ping succeeded: a mysqlConn holding the open handle is returned.
Connected ==
    /\ Handles < MaxHandles
    /\ conns' = Append(conns, [closed |-> FALSE])
    /\ sessions' = sessions + 1
    /\ last' = [Call("Connect", 0) EXCEPT
                   !.vcalls = <<"Open", "Ping">>, !.ret = Len(conns) + 1]

\* Connector.Connect: sql.Open with the held dsn, then db.PingContext(ctx).
Connect(ping) ==
    /\ IF dsn = "malformed" THEN OpenFailed
       ELSE IF ping # Nil THEN PingFailed(ping)
       ELSE Connected
    /\ UNCHANGED <<dsn, stmts, txs, rows, iters, data, acked>>

\* --------------------------------------------------------- mysqlConn

\* A mutant of PrepareErr: the vendor's error is dropped.
PrepareErrSwallowed(c, e) ==
    /\ last' = [Call("Prepare", c) EXCEPT
                   !.vcalls = <<"PrepareContext">>, !.verr = e]
    /\ UNCHANGED stmts

\* Prepare's error path: return nil, err.
PrepareErr(c, e) ==
    /\ last' = [Call("Prepare", c) EXCEPT
                   !.vcalls = <<"PrepareContext">>, !.verr = e, !.err = Bare(e)]
    /\ UNCHANGED stmts

\* mysqlConn.Prepare: c.db.PrepareContext(context.Background(), query).
\* On a closed handle database/sql reports ErrDBClosed; otherwise the
\* server compiles the query or rejects it.
Prepare(c, q, v) ==
    /\ c \in 1..Len(conns)
    /\ Handles < MaxHandles
    /\ IF conns[c].closed
       THEN v = Nil /\ PrepareErr(c, ErrDBClosed)
       ELSE IF v # Nil THEN PrepareErr(c, v)
       ELSE /\ stmts' = Append(stmts, [conn |-> c, query |-> q, closed |-> FALSE])
            /\ last' = [Call("Prepare", c) EXCEPT
                           !.vcalls = <<"PrepareContext">>, !.ret = Len(stmts) + 1]
    /\ UNCHANGED <<dsn, sessions, conns, txs, rows, iters, data, acked>>

\* mysqlConn.Close: c.db.Close().  sql.DB.Close is idempotent: on a closed
\* handle it returns nil and does nothing.  Otherwise the handle is closed,
\* whatever closing its idle connections reports; a connection a running
\* transaction holds is not idle and stays with the transaction.
ConnClose(c, v) ==
    /\ c \in 1..Len(conns)
    /\ IF conns[c].closed
       THEN /\ v = Nil
            /\ UNCHANGED <<conns, sessions>>
       ELSE /\ conns' = [conns EXCEPT ![c].closed = TRUE]
            /\ sessions' = sessions - 1
    /\ last' = [Call("ConnClose", c) EXCEPT
                   !.vcalls = <<"Close">>, !.verr = v, !.err = Bare(v)]
    /\ UNCHANGED <<dsn, stmts, txs, rows, iters, data, acked>>

\* Begin's error path: return nil, err.
BeginErr(c, e) ==
    /\ last' = [Call("Begin", c) EXCEPT
                   !.vcalls = <<"BeginTx">>, !.verr = e, !.err = Bare(e)]
    /\ UNCHANGED txs

\* mysqlConn.Begin: c.db.BeginTx(context.Background(), nil).  The
\* transaction takes a connection of its own from the handle's pool.
Begin(c, v) ==
    /\ c \in 1..Len(conns)
    /\ Handles < MaxHandles
    /\ IF conns[c].closed
       THEN v = Nil /\ BeginErr(c, ErrDBClosed)
       ELSE IF v # Nil THEN BeginErr(c, v)
       ELSE /\ txs' = Append(txs, [conn |-> c, done |-> FALSE, outcome |-> "open",
                                   pending |-> 0, during |-> 0])
            /\ last' = [Call("Begin", c) EXCEPT
                           !.vcalls = <<"BeginTx">>, !.ret = Len(txs) + 1]
    /\ UNCHANGED <<dsn, sessions, conns, stmts, rows, iters, data, acked>>

\* --------------------------------------------------------- mysqlStmt

\* libsql.ToNamedValues: the driver's positional values as the vendor
\* call's parameter list, one parameter per value, in the same order.
ToNamedValues(args) == [i \in 1..Len(args) |-> args[i]]

\* A mutant of ExecParams: the converted list is passed as one parameter
\* (the call without its "...").
ExecParamsNoSpread(args) == << ToNamedValues(args) >>

\* The parameters s.stmt.ExecContext receives: ToNamedValues(args)...
ExecParams(args) == ToNamedValues(args)

\* The parameters s.stmt.QueryContext receives: ToNamedValues(args)...
QueryParams(args) == ToNamedValues(args)

\* What database/sql reports for a call on statement s before it reaches
\* the server: the statement is closed, or the handle it was prepared on is.
StmtStateErr(s) ==
    IF stmts[s].closed THEN ErrStmtClosed
    ELSE IF conns[stmts[s].conn].closed THEN ErrDBClosed
    ELSE Nil

\* The open transactions of statement s's connection.
OpenTxs(s) == { t \in 1..Len(txs) : ~txs[t].done /\ txs[t].conn = stmts[s].conn }

\* A mutant of ExecTarget: the statement runs inside an open transaction
\* of its connection.
ExecTargetTx(s) == IF OpenTxs(s) # {} THEN CHOOSE t \in OpenTxs(s) : TRUE ELSE 0

\* The session statement s executes on: the statement was prepared on the
\* handle (c.db), not on a transaction, so it runs on a pooled connection
\* in autocommit mode (0), never on the connection a transaction holds.
ExecTarget(s) == 0

\* The server applies one write issued through statement s.
ApplyWrite(s) ==
    LET tgt == ExecTarget(s) IN
    /\ data' = IF tgt = 0 THEN data + 1 ELSE data
    /\ txs' = [t \in 1..Len(txs) |->
                 IF t \in OpenTxs(s)
                 THEN [txs[t] EXCEPT !.during = @ + 1,
                                     !.pending = IF t = tgt THEN @ + 1 ELSE @]
                 ELSE txs[t]]
    /\ acked' = acked + 1

\* mysqlStmt.Close: s.stmt.Close().  sql.Stmt.Close is idempotent.
StmtClose(s, v) ==
    /\ s \in 1..Len(stmts)
    /\ IF stmts[s].closed
       THEN v = Nil /\ UNCHANGED stmts
       ELSE stmts' = [stmts EXCEPT ![s].closed = TRUE]
    /\ last' = [Call("StmtClose", s) EXCEPT
                   !.vcalls = <<"Close">>, !.verr = v, !.err = Bare(v)]
    /\ UNCHANGED <<dsn, sessions, conns, txs, rows, iters, data, acked>>

\* mysqlStmt.Exec: s.stmt.ExecContext(context.Background(), params...);
\* on error return nil, err, otherwise the vendor's result.
Exec(s, args, v) ==
    /\ s \in 1..Len(stmts)
    /\ LET e == IF StmtStateErr(s) # Nil THEN StmtStateErr(s) ELSE v IN
       /\ StmtStateErr(s) # Nil => v = Nil
       /\ last' = [Call("Exec", s) EXCEPT
                      !.vcalls = <<"ExecContext">>, !.args = args,
                      !.sent = ExecParams(args), !.verr = e, !.err = Bare(e),
                      !.res = (e = Nil)]
       /\ IF e = Nil /\ Writes(stmts[s].query)
          THEN acked < MaxWrites /\ ApplyWrite(s)
          ELSE UNCHANGED <<data, txs, acked>>
    /\ UNCHANGED <<dsn, sessions, conns, stmts, rows, iters>>

\* mysqlStmt.Query: s.stmt.QueryContext(context.Background(), params...);
\* on error return nil, err, otherwise a mysqlRows holding the vendor's
\* rows.  k is the number of rows the server has for the query.
Query(s, args, v, k) ==
    /\ s \in 1..Len(stmts)
    /\ Handles < MaxHandles
    /\ LET e == IF StmtStateErr(s) # Nil THEN StmtStateErr(s) ELSE v IN
       /\ StmtStateErr(s) # Nil => v = Nil
       /\ (e # Nil \/ Writes(stmts[s].query)) => k = 0
       /\ last' = [Call("Query", s) EXCEPT
                      !.vcalls = <<"QueryContext">>, !.args = args,
                      !.sent = QueryParams(args), !.verr = e, !.err = Bare(e),
                      !.ret = IF e = Nil THEN Len(rows) + 1 ELSE 0]
       /\ IF e = Nil
          THEN /\ rows' = Append(rows, [stmt |-> s, k |-> k, pos |-> 0,
                                        closed |-> FALSE, nexts |-> 0])
               /\ iters' = iters + 1
          ELSE UNCHANGED <<rows, iters>>
       /\ IF e = Nil /\ Writes(stmts[s].query)
          THEN acked < MaxWrites /\ ApplyWrite(s)
          ELSE UNCHANGED <<data, txs, acked>>
    /\ UNCHANGED <<dsn, sessions, conns, stmts>>

\* ----------------------------------------------------------- mysqlTx

\* A mutant of TxEnd: the handle is not marked finished.
TxEndStaysOpen(t, how) == [txs EXCEPT ![t].outcome = how, ![t].pending = 0]

\* sql.Tx marks itself done before it sends COMMIT or ROLLBACK, so the
\* transaction is finished whatever the server answers.
TxEnd(t, how) == [txs EXCEPT ![t].done = TRUE, ![t].outcome = how, ![t].pending = 0]

\* mysqlTx.Commit: t.tx.Commit().  A finished sql.Tx reports ErrTxDone and
\* sends nothing.  The transaction holds its own connection, which closing
\* the handle does not take away.
Commit(t, v) ==
    /\ t \in 1..Len(txs)
    /\ IF txs[t].done
       THEN /\ v = Nil
            /\ last' = [Call("Commit", t) EXCEPT
                           !.vcalls = <<"Commit">>, !.verr = ErrTxDone,
                           !.err = Bare(ErrTxDone)]
            /\ UNCHANGED <<txs, data>>
       ELSE /\ last' = [Call("Commit", t) EXCEPT
                           !.vcalls = <<"Commit">>, !.verr = v, !.err = Bare(v)]
            /\ txs' = TxEnd(t, IF v = Nil THEN "committed" ELSE "failed")
            /\ data' = IF v = Nil THEN data + txs[t].pending ELSE data
    /\ UNCHANGED <<dsn, sessions, conns, stmts, rows, iters, acked>>

\* mysqlTx.Rollback: t.tx.Rollback().
Rollback(t, v) ==
    /\ t \in 1..Len(txs)
    /\ IF txs[t].done
       THEN /\ v = Nil
            /\ last' = [Call("Rollback", t) EXCEPT
                           !.vcalls = <<"Rollback">>, !.verr = ErrTxDone,
                           !.err = Bare(ErrTxDone)]
            /\ UNCHANGED txs
       ELSE /\ last' = [Call("Rollback", t) EXCEPT
                           !.vcalls = <<"Rollback">>, !.verr = v, !.err = Bare(v)]
            /\ txs' = TxEnd(t, IF v = Nil THEN "rolledback" ELSE "failed")
    /\ UNCHANGED <<dsn, sessions, conns, stmts, rows, iters, data, acked>>

\* --------------------------------------------------------- mysqlRows

\* The column names of cursor r's result.
ColsOf(r) == Projection(stmts[rows[r].stmt].query)

\* sql.Rows.Columns: the names, or an error on closed rows.
VendorColumns(r) ==
    IF rows[r].closed THEN [cols |-> <<>>, err |-> ErrRowsClosed]
    ELSE [cols |-> ColsOf(r), err |-> Nil]

\* A mutant of ColumnsRet: the vendor's error is reported instead of dropped.
ColumnsRetErr(r) == [cols |-> VendorColumns(r).cols, err |-> Bare(VendorColumns(r).err)]

\* What mysqlRows.Columns returns: cols, _ := r.rows.Columns(); return cols.
ColumnsRet(r) == [cols |-> VendorColumns(r).cols, err |-> NoErr]

\* mysqlRows.Columns.
Columns(r) ==
    /\ r \in 1..Len(rows)
    /\ last' = [Call("Columns", r) EXCEPT
                   !.vcalls = <<"Columns">>, !.verr = VendorColumns(r).err,
                   !.cols = ColumnsRet(r).cols, !.err = ColumnsRet(r).err]
    /\ UNCHANGED <<dsn, sessions, conns, stmts, txs, rows, iters, data, acked>>

\* A mutant of Release: the vendor iterator is left open.
ReleaseNot(r) ==
    /\ rows' = [rows EXCEPT ![r].closed = TRUE]
    /\ UNCHANGED iters

\* sql.Rows.Close on open rows: the iterator is closed and its connection
\* released, whatever closing it reports.
Release(r) ==
    /\ rows' = [rows EXCEPT ![r].closed = TRUE]
    /\ iters' = iters - 1

\* mysqlRows.Close: r.rows.Close().  sql.Rows.Close is idempotent.
RowsClose(r, v) ==
    /\ r \in 1..Len(rows)
    /\ IF rows[r].closed
       THEN v = Nil /\ UNCHANGED <<rows, iters>>
       ELSE Release(r)
    /\ last' = [Call("RowsClose", r) EXCEPT
                   !.vcalls = <<"Close">>, !.verr = v, !.err = Bare(v)]
    /\ UNCHANGED <<dsn, sessions, conns, stmts, txs, data, acked>>

\* The destination slots the driver contract hands to Next: one empty
\* slot per column.
Slots(r) == [i \in 1..Len(ColsOf(r)) |-> NilValue]

\* sql.Rows.Scan into pointers to the slots: an error on closed rows, an
\* error when sql.Rows.Next has not put the iterator on a row (pos = 0);
\* otherwise the current row's values are written into the slots.  Scan
\* does not move the iterator.
Scan(r, dest) ==
    IF rows[r].closed THEN [err |-> ErrRowsClosed, dest |-> dest]
    ELSE IF rows[r].pos = 0 THEN [err |-> ErrScanNoNext, dest |-> dest]
    ELSE [err |-> Nil, dest |-> [i \in 1..Len(dest) |-> Row(rows[r].pos)[i]]]

\* mysqlRows.Next: binds each slot by reference and returns
\* r.rows.Scan(args...).  It does not call sql.Rows.Next.
RowsNext(r) ==
    /\ r \in 1..Len(rows)
    /\ rows[r].nexts < MaxNexts
    /\ LET out == Scan(r, Slots(r)) IN
       /\ last' = [Call("Next", r) EXCEPT
                      !.vcalls = <<"Scan">>, !.verr = out.err, !.err = Bare(out.err),
                      !.dest = out.dest]
       /\ rows' = [rows EXCEPT ![r].nexts = @ + 1]
    /\ UNCHANGED <<dsn, sessions, conns, stmts, txs, iters, data, acked>>

Next ==
    \/ \E ping \in PingOutcomes : Connect(ping)
    \/ \E c \in 1..MaxHandles, q \in Queries, v \in VendorOutcomes : Prepare(c, q, v)
    \/ \E c \in 1..MaxHandles, v \in VendorOutcomes : ConnClose(c, v)
    \/ \E c \in 1..MaxHandles, v \in VendorOutcomes : Begin(c, v)
    \/ \E s \in 1..MaxHandles, v \in VendorOutcomes : StmtClose(s, v)
    \/ \E s \in 1..MaxHandles, a \in ArgLists, v \in VendorOutcomes : Exec(s, a, v)
    \/ \E s \in 1..MaxHandles, a \in ArgLists, v \in VendorOutcomes, k \in 0..MaxK :
          Query(s, a, v, k)
    \/ \E t \in 1..MaxHandles, v \in VendorOutcomes : Commit(t, v)
    \/ \E t \in 1..MaxHandles, v \in VendorOutcomes : Rollback(t, v)
    \/ \E r \in 1..MaxHandles : Columns(r)
    \/ \E r \in 1..MaxHandles, v \in VendorOutcomes : RowsClose(r, v)
    \/ \E r \in 1..MaxHandles : RowsNext(r)

Spec == Init /\ [][Next]_vars
\* ------------------------------------------------------------- claims

OpenConns == { c \in 1..Len(conns) : ~conns[c].closed }
OpenRows  == { r \in 1..Len(rows) : ~rows[r].closed }
TxOps     == {"Commit", "Rollback"}

\* C1: once Commit or Rollback has been called on a transaction, every later
\* Commit or Rollback on it returns the already-terminated error, and
\* changes neither the transaction nor the database.
C1_TxTerminal ==
    [][\A t \in 1..Len(txs) :
          (txs[t].outcome # "open" /\ last'.op \in TxOps /\ last'.obj = t)
          => (last'.err = <<ErrTxDone>> /\ txs' = txs /\ data' = data)]_vars

\* C1 witness: a call on a transaction that was committed returned the
\* already-terminated error.
C1_Witness ==
    /\ last.op \in TxOps
    /\ last.err = <<ErrTxDone>>
    /\ txs[last.obj].outcome = "committed"

\* C2: the open vendor handles are exactly those of the connections that
\* were returned and not yet closed; a failed Connect returns no connection,
\* so it leaves the count as it was.
C2_NoSessionLeak ==
    /\ sessions = Cardinality(OpenConns)
    /\ (last.op = "Connect" /\ last.err # NoErr) => last.ret = 0

\* C2 witness: a Connect cancelled during its ping failed while another
\* connection was open, and one handle is open.
C2_Witness ==
    /\ last.op = "Connect"
    /\ last.err = Wrap(PingPrefix, ErrCanceled)
    /\ Cardinality(OpenConns) = 1
    /\ sessions = 1

\* C3 (as claimed): on an open cursor over k rows the i-th Next call returns
\* no error and the i-th row in the slots for i <= k, and end-of-data for
\* i = k + 1.
C3_NextStreamsRows ==
    (last.op = "Next" /\ ~rows[last.obj].closed) =>
        LET i == rows[last.obj].nexts
            k == rows[last.obj].k
        IN  /\ i <= k => (last.err = NoErr /\ last.dest = Row(i))
            /\ i = k + 1 => last.err = <<EOF>>

\* C4: Connect opens, then pings; it returns a connection exactly when it
\* returns no error, and then both calls succeeded; a failed open returns
\* the open error without a ping; a failed ping returns the ping error
\* wrapping its cause.
C4_ConnectOpenThenPing ==
    last.op = "Connect" =>
        /\ last.vcalls[1] = "Open"
        /\ (last.ret # 0) <=> (last.err = NoErr)
        /\ last.ret # 0 => (last.vcalls = <<"Open", "Ping">> /\ last.verr = Nil)
        /\ dsn = "malformed" => (last.err = Wrap(OpenPrefix, ErrDSN) /\ last.vcalls = <<"Open">>)
        /\ (dsn # "malformed" /\ last.verr # Nil) =>
              (last.err = Wrap(PingPrefix, last.verr) /\ last.vcalls[2] = "Ping")

\* C4 witness: a Connect whose ping was refused for its credentials
\* returned the wrapped ping error.
C4_Witness ==
    /\ last.op = "Connect"
    /\ last.err = Wrap(PingPrefix, ErrAuth)
    /\ last.ret = 0

C6_ClosedInvalidates ==
    /\ (last.op \in {"Prepare", "Begin"} /\ conns[last.obj].closed)
          => (last.err # NoErr /\ last.ret = 0)
    /\ (last.op \in {"Exec", "Query"} /\ conns[stmts[last.obj].conn].closed)
          => (last.err # NoErr /\ last.ret = 0 /\ ~last.res)
    /\ (last.op \in TxOps /\ conns[txs[last.obj].conn].closed)
          => last.err # NoErr

\* C7 (as claimed): Close on a cursor returns no error and leaves no
\* iterator open but those of the open cursors.
C7_CloseNeverErrs ==
    last.op = "RowsClose" =>
        /\ last.err = NoErr
        /\ iters = Cardinality(OpenRows)

\* C7 (amended): Close on a cursor returns what the vendor's close reports,
\* so no error unless that close fails; either way the cursor's iterator
\* is released, and no iterator is open but those of the open cursors.
C7_CloseReleases ==
    /\ iters = Cardinality(OpenRows)
    /\ last.op = "RowsClose" =>
          /\ last.err = Bare(last.verr)
          /\ rows[last.obj].closed

\* C7 witness: a cursor on which Next was called, over a result with a row
\* it never delivered, was closed without error and no iterator is open.
C7_Witness ==
    /\ last.op = "RowsClose"
    /\ last.err = NoErr
    /\ rows[last.obj].nexts >= 1
    /\ rows[last.obj].k >= 1
    /\ iters = 0

\* C8: Columns returns no error; on an open cursor it returns the
\* projection of the query, on a closed one the empty sequence; it leaves
\* every cursor as it was.
C8_ColumnsBestEffort ==
    [][last'.op = "Columns" =>
          /\ last'.err = NoErr
          /\ last'.cols = IF rows[last'.obj].closed THEN <<>> ELSE ColsOf(last'.obj)
          /\ rows' = rows]_vars

\* C8 witness: Columns on an open cursor over zero rows returned the
\* projection.
C8_Witness ==
    /\ last.op = "Columns"
    /\ rows[last.obj].k = 0
    /\ ~rows[last.obj].closed
    /\ last.cols = <<"id", "name">>

AdapterOps ==
    {"Prepare", "Begin", "Exec", "Query", "Commit", "Rollback", "Next",
     "ConnClose", "StmtClose", "RowsClose"}

\* C9: each of these adapter calls makes one vendor call, and when that
\* call fails the adapter returns its error itself, and no handle or result.
C9_ErrorsPropagate ==
    last.op \in AdapterOps =>
        /\ Len(last.vcalls) = 1
        /\ last.verr # Nil => (last.err = <<last.verr>> /\ last.ret = 0 /\ ~last.res)

\* C9 witness: a Query the server failed returned the server's error.
C9_Witness ==
    /\ last.op = "Query"
    /\ last.verr = ErrVendor
    /\ last.err = <<ErrVendor>>

\* C10: Begin, Commit and Rollback leave the statements and their
\* connections as they were, and every write acknowledged through a
\* statement is in the database whatever transactions were open, committed
\* or rolled back since.
C10_StmtsIndependentOfTxs ==
    [][/\ last'.op \in {"Begin", "Commit", "Rollback"} => (stmts' = stmts /\ conns' = conns)
       /\ data' = acked']_vars

\* C10 witness: a transaction was rolled back after a write was
\* acknowledged through a statement of its connection while it was open,
\* and the write is in the database.
C10_Witness ==
    /\ last.op = "Rollback"
    /\ txs[last.obj].outcome = "rolledback"
    /\ txs[last.obj].during > 0
    /\ data = acked
    /\ data > 0
=============================================================================
